---- MODULE Spec2Model ----
(***************************************************************************)
(* Model of the TOD Markets JavaScript examples.                           *)
(*                                                                         *)
(* src/Javascript/API.js holds two scripts: the REST helpers (lines 1-127, *)
(* API.js) and the websocket example (lines 130-216, websocket.js), which  *)
(* requires the first.  The model covers a process started in one of three *)
(* ways: API.js run as main, API.js required by a caller that uses its     *)
(* exports, and websocket.js run as main.                                  *)
(*                                                                         *)
(* JavaScript values are modelled as sequences of string tokens, so that   *)
(* a channel name's "private-" prefix is a real prefix: <<"private-","k2">>*)
(* The values null and undefined are the tokens Null and Undefined.        *)
(*                                                                         *)
(* websocket.js calls ref(...) at line 173 without defining or importing   *)
(* it: the script runs past that line only where the host defines a global *)
(* ref, which env.ref records; without it the load ends in a               *)
(* ReferenceError before establishWebSocketConnection is called.           *)
(*                                                                         *)
(* The pusher-js client is the environment of the script.  What the model  *)
(* takes from it: the constructor throws on a null/undefined key,          *)
(* subscribe throws on a null/undefined name, a channel whose name starts  *)
(* with "private-" is authorized through authEndpoint before it is         *)
(* subscribed, events reach the callbacks bound to their name once the     *)
(* subscription succeeded, and after a dropped connection the client       *)
(* reconnects and subscribes its channels again.                           *)
(***************************************************************************)
EXTENDS Integers, Sequences, FiniteSets, TLC

VARIABLES env, main, proc, requestOptions, requests, calls,
          websocketDetails, hs, pusher, chan,
          refreshLog, inbound, authLog, drops

vars == <<env, main, proc, requestOptions, requests, calls,
          websocketDetails, hs, pusher, chan,
          refreshLog, inbound, authLog, drops>>

----------------------------------------------------------------------------
(* Bounds *)

MaxRestCalls == 2
MaxCalls == 2
MaxEvents == 1
MaxDrops == 1

----------------------------------------------------------------------------
(* JavaScript values *)

Null == <<"#null">>
Undefined == <<"#undefined">>
NoBody == <<"#nobody">>

Absent(v) == v \in {Null, Undefined}

Fields ==
  {"id", "name", "channel_key", "channel_key_expiry",
   "pusher_host", "pusher_key", "pusher_cluster"}

\* details.f on a parsed JSON object: a missing property reads as undefined
Read(details, f) == IF f \in DOMAIN details THEN details[f] ELSE Undefined

----------------------------------------------------------------------------
(* API.js *)

\* lines 6 and 11: !API_KEY, !DOMAIN_URL
MissingSettingDomainOnly(e) == ~e.DOMAIN_URL

MissingSetting(e) == ~e.API_KEY \/ ~e.DOMAIN_URL

initialRequestOptions ==
  [method |-> "GET", redirect |-> "follow", body |-> NoBody,
   headers |-> [Authorization |-> "Bearer API_KEY",
                ContentType |-> "application/json"]]

\* The values a caller can pass as `parameters`
Parameters ==
  {"undefined", "null", "object", "URLSearchParams", "string", "?string",
   "emptyString", "number0", "number7", "false", "true", "function"}

Truthy(p) == p \notin {"undefined", "null", "emptyString", "number0", "false"}

TypeOf(p) ==
  CASE p = "undefined" -> "undefined"
    [] p \in {"null", "object", "URLSearchParams"} -> "object"
    [] p \in {"string", "?string", "emptyString"} -> "string"
    [] p \in {"number0", "number7"} -> "number"
    [] p \in {"false", "true"} -> "boolean"
    [] p = "function" -> "function"

\* lines 53-69: what the parameter handling does with `parameters`
ParametersOutcome(p) ==
  IF Truthy(p)
  THEN IF p = "URLSearchParams" THEN "append"
       ELSE IF TypeOf(p) = "object" THEN "append"
       ELSE IF TypeOf(p) = "string" THEN "append"
       ELSE "TypeError"
  ELSE "skip"

\* lines 55-65: the query appended to the URL
QueryOf(p) ==
  CASE p = "URLSearchParams" -> <<"k=v">>
    [] p = "object" -> <<"k=v">>
    [] p = "string" -> <<"k=v">>
    [] p = "?string" -> <<"k=v">>   \* leading '?' sliced off
    [] OTHER -> <<>>

\* line 72: fetch(url.toString(), requestOptions)
GetRequest(endpoint, p, ro) ==
  [by |-> "get", url |-> <<endpoint>> \o QueryOf(p), opts |-> ro]

\* line 92: JSON.stringify(payload)
JSONstringify(payload) == <<"json">> \o payload

\* lines 94-102: the options of the POST, and the shared object afterwards
PostOptsAssign(ro, body) ==
  LET o == [ro EXCEPT !.method = "POST",
                      !.headers.ContentType = "application/json",
                      !.body = body]
  IN [opts |-> o, shared |-> o]

PostOpts(ro, body) ==
  [opts |-> [ro EXCEPT !.method = "POST",
                       !.headers.ContentType = "application/json",
                       !.body = body],
   shared |-> ro]

PostRequest(endpoint, payload, ro) ==
  [by |-> "post", url |-> <<endpoint>>,
   opts |-> PostOpts(ro, JSONstringify(payload)).opts]

Payloads == {<<"order">>, <<"company">>}

----------------------------------------------------------------------------
(* websocket.js *)

\* lines 140-148
initialWebsocketDetails == [f \in Fields |-> Null]

setWebsocketDetailsWrongProperty(details) ==
  [f \in Fields |-> IF f = "pusher_cluster" THEN Read(details, "cluster")
                    ELSE Read(details, f)]

\* lines 150-158: seven property reads and assignments; reading a property of
\* undefined (res.data absent) throws before the first assignment
setWebsocketDetails(details) == [f \in Fields |-> Read(details, f)]

\* Credential payloads the backend may answer with (res.data).  The source
\* does not fix whether channel_key already carries the "private-" prefix:
\* P1 has a bare key (as line 175 expects), P2 a prefixed one.
P1 ==
  [id |-> <<"c1">>, name |-> <<"Acme">>, channel_key |-> <<"k1">>,
   channel_key_expiry |-> <<"e1">>, pusher_host |-> <<"h">>,
   pusher_key |-> <<"pk">>, pusher_cluster |-> <<"eu">>]

P2 ==
  [id |-> <<"c2">>, name |-> <<"Bolt">>, channel_key |-> <<"private-", "k2">>,
   channel_key_expiry |-> <<"e2">>, pusher_host |-> <<"h2">>,
   pusher_key |-> <<"pk2">>, pusher_cluster |-> <<"us">>]

Without(d, g) == [f \in (DOMAIN d) \ {g} |-> d[f]]

CompletePayloads == {P1, P2}
IncompletePayloads == {Without(P1, g) : g \in Fields}

HasAllFields(d) == \A f \in Fields : ~Absent(Read(d, f))

\* Response bodies of GET /api/company (line 163: JSON.parse, res.data)
Bodies ==
  {[kind |-> "malformed", data |-> Without(P1, "id")],
   [kind |-> "nodata", data |-> Without(P1, "id")]}
  \cup {[kind |-> "data", data |-> d] : d \in CompletePayloads \cup IncompletePayloads}

\* lines 162-170: the .then handler and the .catch that swallows its errors.
\* Result: the new websocketDetails and whether the refresh failed.
Refresh(wd, body) ==
  IF body.kind = "data"
  THEN [details |-> setWebsocketDetails(body.data), failed |-> FALSE]
  ELSE [details |-> wd, failed |-> TRUE]

\* lines 173-184: channels["private-company"]
channelsName(wd) == <<"private-">> \o wd.channel_key

channelsEvents ==
  {"App\\Events\\AssetPriceChangeEventCompany", "App\\Events\\OrderUpdated",
   "App\\Events\\OrderFilled", "App\\Events\\OrderCreated"}

\* line 205: the only event bound on the subscribed channel
BoundEvents == {"update"}

EventNames == channelsEvents \cup {"update"}

\* pusher-js: a channel whose name starts with "private-" is authorized
\* through authEndpoint before it is subscribed; any other name is public
IsPrivateName(n) == Len(n) > 0 /\ n[1] = "private-"

NoClient == [state |-> "none", key |-> Null, cluster |-> Null, wsHost |-> Null]
NoChannel == [name |-> Null, status |-> "none", auth |-> "None", bound |-> {}]
IdleHs == [pc |-> "idle", fetch |-> "none", attempt |-> <<>>]

ConnectPrefixed(wd, fetched) ==
  IF Absent(wd.pusher_key)
  THEN [hs |-> [pc |-> "rejected", fetch |-> fetched, attempt |-> <<wd>>],
        pusher |-> NoClient, chan |-> NoChannel]
  ELSE LET client == [state |-> "connecting", key |-> wd.pusher_key,
                      cluster |-> wd.pusher_cluster, wsHost |-> wd.pusher_host]
       IN IF Absent(wd.channel_key)
          THEN [hs |-> [pc |-> "rejected", fetch |-> fetched, attempt |-> <<wd>>],
                pusher |-> client, chan |-> NoChannel]
          ELSE [hs |-> [pc |-> "done", fetch |-> fetched, attempt |-> <<wd>>],
                pusher |-> client,
                chan |-> [name |-> channelsName(wd), status |-> "pending",
                          auth |-> "None", bound |-> BoundEvents]]

\* lines 188-207, run once getWebsocketDetails has resolved: new Pusher(...)
\* throws when the key is null/undefined, pusher.subscribe(name) throws when
\* the name is null/undefined, otherwise the channel is created and 'update'
\* is bound.
Connect(wd, fetched) ==
  IF Absent(wd.pusher_key)
  THEN [hs |-> [pc |-> "rejected", fetch |-> fetched, attempt |-> <<wd>>],
        pusher |-> NoClient, chan |-> NoChannel]
  ELSE LET client == [state |-> "connecting", key |-> wd.pusher_key,
                      cluster |-> wd.pusher_cluster, wsHost |-> wd.pusher_host]
       IN IF Absent(wd.channel_key)
          THEN [hs |-> [pc |-> "rejected", fetch |-> fetched, attempt |-> <<wd>>],
                pusher |-> client, chan |-> NoChannel]
          ELSE [hs |-> [pc |-> "done", fetch |-> fetched, attempt |-> <<wd>>],
                pusher |-> client,
                chan |-> [name |-> wd.channel_key, status |-> "pending",
                          auth |-> "None", bound |-> BoundEvents]]

----------------------------------------------------------------------------
(* State *)

HsIds == 1..MaxCalls

Init ==
  /\ env \in [API_KEY : BOOLEAN, DOMAIN_URL : BOOLEAN, ref : BOOLEAN]
  /\ main \in {"API", "lib", "websocket"}
  /\ proc = "init"
  /\ requestOptions = initialRequestOptions
  /\ requests = <<>>
  /\ calls = <<>>
  /\ websocketDetails = initialWebsocketDetails
  /\ hs = [i \in HsIds |-> IdleHs]
  /\ pusher = [i \in HsIds |-> NoClient]
  /\ chan = [i \in HsIds |-> NoChannel]
  /\ refreshLog = <<>>
  /\ inbound = <<>>
  /\ authLog = <<>>
  /\ drops = 0

\* a call of getTodMarketsEndpoint up to its first await (lines 48-72)
GetCall(owner, endpoint, p) ==
  IF ParametersOutcome(p) = "TypeError"
  THEN /\ calls' = Append(calls, [fn |-> "get", owner |-> owner, parameters |-> p,
                                  payload |-> <<>>, pc |-> "TypeError", req |-> 0])
       /\ UNCHANGED requests
  ELSE /\ requests' = Append(requests, GetRequest(endpoint, p, requestOptions))
       /\ calls' = Append(calls, [fn |-> "get", owner |-> owner, parameters |-> p,
                                  payload |-> <<>>, pc |-> "fetch", req |-> Len(requests) + 1])

\* a call of postTodMarketsEndpoint up to its first await (lines 88-104)
PostCall(endpoint, payload) ==
  /\ requests' = Append(requests, PostRequest(endpoint, payload, requestOptions))
  /\ requestOptions' = PostOpts(requestOptions, JSONstringify(payload)).shared
  /\ calls' = Append(calls, [fn |-> "post", owner |-> 0, parameters |-> "undefined",
                             payload |-> payload, pc |-> "fetch", req |-> Len(requests) + 1])

EstablishCallOnce(i) ==
  IF \E j \in HsIds : hs[j].pc # "idle"
  THEN /\ hs' = [hs EXCEPT ![i] = [pc |-> "done", fetch |-> "none", attempt |-> <<>>]]
       /\ UNCHANGED <<calls, requests>>
  ELSE /\ hs' = [hs EXCEPT ![i] = [pc |-> "fetching", fetch |-> "pending", attempt |-> <<>>]]
       /\ GetCall(i, "/api/company", "undefined")

\* establishWebSocketConnection up to its first await (lines 186-187, 160-161)
EstablishCall(i) ==
  /\ hs' = [hs EXCEPT ![i] = [pc |-> "fetching", fetch |-> "pending", attempt |-> <<>>]]
  /\ GetCall(i, "/api/company", "undefined")

\* the continuation of establishWebSocketConnection after line 187, and the
\* fate of the process when its promise rejects (line 215 attaches no catch:
\* the unhandled rejection ends the process or is only reported, depending
\* on the runtime)
Resume(i, wd, fetched, crash) ==
  LET r == Connect(wd, fetched)
  IN /\ hs' = [hs EXCEPT ![i] = r.hs]
     /\ pusher' = [pusher EXCEPT ![i] = r.pusher]
     /\ chan' = [chan EXCEPT ![i] = r.chan]
     /\ proc' = IF r.hs.pc = "rejected" /\ crash THEN "crashed" ELSE proc

----------------------------------------------------------------------------
(* Actions *)

\* Module load: API.js lines 1-27 and 109-127, websocket.js lines 130-216
Load ==
  /\ proc = "init"
  /\ IF MissingSetting(env)
     THEN /\ proc' = "exited"
          /\ UNCHANGED <<requests, calls, hs, requestOptions>>
     ELSE CASE main = "API" ->
                 LET get == GetRequest("/api/assets/prices", "object", requestOptions)
                     shared == PostOpts(requestOptions, JSONstringify(<<"order">>)).shared
                     post == PostRequest("/api/order", <<"order">>, requestOptions)
                 IN /\ proc' = "running"
                    /\ requests' = <<get, post>>
                    /\ requestOptions' = shared
                    /\ calls' = <<[fn |-> "get", owner |-> 0, parameters |-> "object",
                                   payload |-> <<>>, pc |-> "fetch", req |-> 1],
                                  [fn |-> "post", owner |-> 0, parameters |-> "undefined",
                                   payload |-> <<"order">>, pc |-> "fetch", req |-> 2]>>
                    /\ UNCHANGED hs
            [] main = "lib" ->
                 /\ proc' = "running"
                 /\ UNCHANGED <<requests, calls, hs, requestOptions>>
            [] main = "websocket" ->
                 IF env.ref
                 THEN /\ proc' = "running"
                      /\ EstablishCall(1)
                      /\ UNCHANGED requestOptions
                 ELSE \* line 173: ReferenceError, ref is not defined
                      /\ proc' = "crashed"
                      /\ UNCHANGED <<requests, calls, hs, requestOptions>>
  /\ UNCHANGED <<env, main, websocketDetails, pusher, chan,
                 refreshLog, inbound, authLog, drops>>

\* a caller of the exports calls getTodMarketsEndpoint(endpoint, parameters)
CallGet(p) ==
  /\ proc = "running" /\ main = "lib"
  /\ Len(calls) < MaxRestCalls
  /\ GetCall(0, "/company", p)
  /\ UNCHANGED <<env, main, proc, requestOptions, websocketDetails, hs, pusher,
                 chan, refreshLog, inbound, authLog, drops>>

\* a caller of the exports calls postTodMarketsEndpoint(endpoint, payload)
CallPost(payload) ==
  /\ proc = "running" /\ main = "lib"
  /\ Len(calls) < MaxRestCalls
  /\ PostCall("/company", payload)
  /\ UNCHANGED <<env, main, proc, websocketDetails, hs, pusher,
                 chan, refreshLog, inbound, authLog, drops>>

\* a further call of establishWebSocketConnection
CallEstablish(i) ==
  /\ proc = "running" /\ main = "websocket"
  /\ hs[i].pc = "idle"
  /\ \A j \in HsIds : j < i => hs[j].pc # "idle"
  /\ EstablishCall(i)
  /\ UNCHANGED <<env, main, proc, requestOptions, websocketDetails, pusher,
                 chan, refreshLog, inbound, authLog, drops>>

\* lines 72-73 / 104-105: fetch resolves with an ok response
FetchOk(c) ==
  /\ proc = "running"
  /\ calls[c].pc = "fetch"
  /\ calls' = [calls EXCEPT ![c].pc = "text"]
  /\ UNCHANGED <<env, main, proc, requestOptions, requests, websocketDetails,
                 hs, pusher, chan, refreshLog, inbound, authLog, drops>>

\* fetch rejects, the response is not ok, or reading the body fails: the call
\* rejects; in getWebsocketDetails the .catch of line 168 swallows the error
\* and establishWebSocketConnection goes on at line 188
FetchFails(c, crash) ==
  /\ proc = "running"
  /\ calls[c].pc \in {"fetch", "text"}
  /\ calls' = [calls EXCEPT ![c].pc = "failed"]
  /\ IF calls[c].owner = 0
     THEN /\ crash = FALSE
          /\ UNCHANGED <<proc, hs, pusher, chan, refreshLog>>
     ELSE /\ refreshLog' = Append(refreshLog,
               [kind |-> "nofetch", payload |-> Without(P1, "id"),
                before |-> websocketDetails, after |-> websocketDetails,
                failed |-> TRUE])
          /\ Resume(calls[c].owner, websocketDetails, "failed", crash)
  /\ UNCHANGED <<env, main, requestOptions, requests, websocketDetails,
                 inbound, authLog, drops>>

\* lines 74 / 106: the body text arrives; for getWebsocketDetails lines
\* 162-170 run, then establishWebSocketConnection lines 188-207
TextArrives(c, body, crash) ==
  /\ proc = "running"
  /\ calls[c].pc = "text"
  /\ calls' = [calls EXCEPT ![c].pc = "ok"]
  /\ IF calls[c].owner = 0
     THEN /\ crash = FALSE
          /\ body = [kind |-> "data", data |-> P1]
          /\ UNCHANGED <<proc, hs, pusher, chan, refreshLog, websocketDetails>>
     ELSE LET r == Refresh(websocketDetails, body)
          IN /\ websocketDetails' = r.details
             /\ refreshLog' = Append(refreshLog,
                  [kind |-> body.kind, payload |-> body.data,
                   before |-> websocketDetails, after |-> r.details,
                   failed |-> r.failed])
             /\ Resume(calls[c].owner, r.details,
                       IF r.failed THEN "failed" ELSE "ok", crash)
  /\ UNCHANGED <<env, main, requestOptions, requests, inbound, authLog, drops>>

----------------------------------------------------------------------------
(* The pusher-js client created at line 189 and its server *)

\* lines 196-201: the authorization request pusher-js sends for a private channel
AuthRequest ==
  [by |-> "pusher-auth", url |-> <<"/broadcasting/auth">>,
   opts |-> [method |-> "POST", redirect |-> "follow", body |-> <<"socket_id">>,
             headers |-> [Authorization |-> "Bearer API_KEY",
                          ContentType |-> "application/x-www-form-urlencoded"]]]

\* the connection opens (first time or after a drop); pusher-js then
\* subscribes every channel it holds: a private one is authorized first
TransportConnected(i) ==
  /\ proc = "running"
  /\ pusher[i].state = "connecting"
  /\ pusher' = [pusher EXCEPT ![i].state = "connected"]
  /\ IF chan[i].status = "pending"
     THEN IF IsPrivateName(chan[i].name)
          THEN /\ chan' = [chan EXCEPT ![i].status = "authorizing", ![i].auth = "Pending"]
               /\ requests' = Append(requests, AuthRequest)
               /\ authLog' = Append(authLog,
                    [hs |-> i, fetches |-> Len(refreshLog), channel |-> chan[i].name,
                     key |-> pusher[i].key, result |-> "pending"])
          ELSE /\ chan' = [chan EXCEPT ![i].status = "subscribing"]
               /\ UNCHANGED <<requests, authLog>>
     ELSE UNCHANGED <<chan, requests, authLog>>
  /\ UNCHANGED <<env, main, proc, requestOptions, calls, websocketDetails, hs,
                 refreshLog, inbound, drops>>

\* the backend answers the authorization request
AuthSettles(i, ok) ==
  /\ proc = "running"
  /\ pusher[i].state = "connected"
  /\ chan[i].status = "authorizing"
  /\ chan' = [chan EXCEPT ![i].status = IF ok THEN "subscribing" ELSE "rejected",
                          ![i].auth = IF ok THEN "Authorized" ELSE "Rejected"]
  /\ LET k == CHOOSE k \in 1..Len(authLog) :
                 authLog[k].hs = i /\ authLog[k].result = "pending"
     IN authLog' = [authLog EXCEPT ![k].result = IF ok THEN "granted" ELSE "denied"]
  /\ UNCHANGED <<env, main, proc, requestOptions, requests, calls,
                 websocketDetails, hs, pusher, refreshLog, inbound, drops>>

\* the server confirms the subscription
SubscriptionSucceeded(i) ==
  /\ proc = "running"
  /\ pusher[i].state = "connected"
  /\ chan[i].status = "subscribing"
  /\ chan' = [chan EXCEPT ![i].status = "subscribed"]
  /\ UNCHANGED <<env, main, proc, requestOptions, requests, calls,
                 websocketDetails, hs, pusher, refreshLog, inbound, authLog, drops>>

EventPayload == <<"id", "42">>

\* the server sends an event on a subscribed channel; pusher-js calls every
\* callback bound to that event name with the event's data (lines 205-207)
InboundEvent(i, ev) ==
  /\ proc = "running"
  /\ pusher[i].state = "connected"
  /\ chan[i].status = "subscribed"
  /\ Len(inbound) < MaxEvents
  /\ inbound' = Append(inbound,
       [hs |-> i, channel |-> chan[i].name, event |-> ev,
        payload |-> EventPayload,
        received |-> IF ev \in chan[i].bound THEN <<EventPayload>> ELSE <<>>,
        auth |-> chan[i].auth])
  /\ UNCHANGED <<env, main, proc, requestOptions, requests, calls,
                 websocketDetails, hs, pusher, chan, refreshLog, authLog, drops>>

\* the connection drops (or activityTimeout/pongTimeout of lines 192-193
\* expire); pusher-js reconnects with the key, host and channels it was
\* constructed with, and an authorization still in flight is abandoned
TransportDrop(i) ==
  /\ proc = "running"
  /\ pusher[i].state = "connected"
  /\ drops < MaxDrops
  /\ drops' = drops + 1
  /\ pusher' = [pusher EXCEPT ![i].state = "connecting"]
  /\ chan' = [chan EXCEPT ![i].status =
                IF chan[i].status = "none" THEN "none" ELSE "pending",
                          ![i].auth = IF chan[i].status = "none" THEN "None"
                                      ELSE IF chan[i].auth = "Pending" THEN "None"
                                      ELSE chan[i].auth]
  /\ authLog' = [k \in 1..Len(authLog) |->
                   IF authLog[k].hs = i /\ authLog[k].result = "pending"
                   THEN [authLog[k] EXCEPT !.result = "abandoned"]
                   ELSE authLog[k]]
  /\ UNCHANGED <<env, main, proc, requestOptions, requests, calls,
                 websocketDetails, hs, refreshLog, inbound>>

----------------------------------------------------------------------------

Next ==
  \/ Load
  \/ \E p \in Parameters : CallGet(p)
  \/ \E payload \in Payloads : CallPost(payload)
  \/ \E c \in 1..Len(calls) : FetchOk(c)
  \/ \E c \in 1..Len(calls), crash \in BOOLEAN : FetchFails(c, crash)
  \/ \E c \in 1..Len(calls), body \in Bodies, crash \in BOOLEAN : TextArrives(c, body, crash)
  \/ \E i \in HsIds : TransportConnected(i)
  \/ \E i \in HsIds, ok \in BOOLEAN : AuthSettles(i, ok)
  \/ \E i \in HsIds : SubscriptionSucceeded(i)
  \/ \E i \in HsIds, ev \in EventNames : InboundEvent(i, ev)
  \/ \E i \in HsIds : TransportDrop(i)

\* The program as shipped: establishWebSocketConnection is called once, at
\* line 215
Spec == Init /\ [][Next]_vars

\* establishWebSocketConnection as an operation that is called again while
\* earlier calls are in progress or have finished: the steps of its code,
\* up to the construction of the clients
NextCalls ==
  \/ Load
  \/ \E i \in HsIds : CallEstablish(i)
  \/ \E c \in 1..Len(calls) : FetchOk(c)
  \/ \E c \in 1..Len(calls), crash \in BOOLEAN : FetchFails(c, crash)
  \/ \E c \in 1..Len(calls), body \in Bodies, crash \in BOOLEAN : TextArrives(c, body, crash)

SpecCalls == Init /\ [][NextCalls]_vars


----------------------------------------------------------------------------
(* Claims *)

\* C1: the transport client is constructed, and a subscription attempted,
\* only with a credential set whose required fields are all present and that
\* comes from a successful fetch; after a failed or incomplete fetch no
\* connection attempt is made.
C1_ConnectOnlyWithCompleteCredentials ==
  \A i \in HsIds :
    hs[i].attempt # <<>> =>
      /\ hs[i].fetch = "ok"
      /\ HasAllFields(hs[i].attempt[1])

C3_DeliveryOnlyWhenAuthorized ==
  \A k \in 1..Len(inbound) :
    inbound[k].received # <<>> => inbound[k].auth = "Authorized"

\* C4: on the subscribed channel every inbound AssetPriceChangeEventCompany,
\* OrderUpdated, OrderFilled or OrderCreated event is delivered to its handler
\* exactly once with the payload unmodified.
C4_DomainEventsDeliveredOnce ==
  \A k \in 1..Len(inbound) :
    inbound[k].event \in channelsEvents =>
      inbound[k].received = <<inbound[k].payload>>

\* C5: when API_KEY or DOMAIN_URL is absent at startup the process fails at
\* once: no HTTP request, credential fetch, transport client or subscription
\* is ever attempted.
C5_MissingSettingFailsFast ==
  (~env.API_KEY \/ ~env.DOMAIN_URL) =>
    /\ proc \in {"init", "exited"}
    /\ requests = <<>>
    /\ calls = <<>>
    /\ \A i \in HsIds :
         hs[i] = IdleHs /\ pusher[i] = NoClient /\ chan[i] = NoChannel

C5_Witness ==
  proc = "exited" /\ ~env.API_KEY /\ env.DOMAIN_URL

\* C6: a failed credential fetch or a denied channel authorization never
\* escapes establishWebSocketConnection as a rejected promise.
C6_FailureNeverEscapes ==
  \A i \in HsIds :
    (hs[i].fetch = "failed" \/ chan[i].auth = "Rejected") => hs[i].pc # "rejected"

\* C7: after a denied channel authorization, no further authorization request
\* of the same connection is issued before a fresh credential fetch.
C7_DenialRefetchesBeforeRetry ==
  \A a, b \in 1..Len(authLog) :
    (a < b /\ authLog[a].hs = authLog[b].hs /\ authLog[a].result = "denied")
      => authLog[b].fetches > authLog[a].fetches

\* C7 (amended): after a denied authorization the code makes no attempt of
\* its own and fetches no credentials again; every authorization request of a
\* connection, also one the client issues after a transport reconnect, is made
\* for the channel key and with the client key of the call's one fetch.
C7_RetryUsesSameCredentials ==
  \A b \in 1..Len(authLog) :
    LET i == authLog[b].hs
    IN /\ hs[i].pc = "done"
       /\ hs[i].attempt = <<websocketDetails>>
       /\ authLog[b].channel = websocketDetails.channel_key
       /\ authLog[b].key = websocketDetails.pusher_key
       /\ authLog[b].fetches = Len(refreshLog)
       /\ \A c \in 1..Len(calls) : calls[c].pc \in {"ok", "failed"}

C7_Witness ==
  \E a, b \in 1..Len(authLog) :
    a < b /\ authLog[a].hs = authLog[b].hs /\ authLog[a].result = "denied"

\* C8: however calls of establishWebSocketConnection interleave, at most one
\* credential fetch is in progress and at most one transport client and one
\* channel subscription exist.
C8_ConnectIdempotent ==
  /\ Cardinality({i \in HsIds : hs[i].pc = "fetching"}) <= 1
  /\ Cardinality({i \in HsIds : pusher[i].state # "none"}) <= 1
  /\ Cardinality({i \in HsIds : chan[i].status # "none"}) <= 1

\* C8 (amended): establishWebSocketConnection is not idempotent: every call
\* sends its own credential fetch, and every call that completes has its own
\* transport client and channel subscription.
C8_EachCallOwnHandshake ==
  /\ \A i \in HsIds :
       hs[i].pc # "idle" =>
         Cardinality({c \in 1..Len(calls) : calls[c].owner = i /\ calls[c].req # 0}) = 1
  /\ \A i \in HsIds :
       hs[i].pc = "done" => (pusher[i].state # "none" /\ chan[i].status # "none")

C8_Witness ==
  /\ hs[1].pc = "done" /\ hs[2].pc = "done"
  /\ pusher[1].state # "none" /\ pusher[2].state # "none"

\* C9: getTodMarketsEndpoint throws a TypeError and sends no request for
\* every `parameters` that is a number, a boolean or a function.
C9_NonObjectParametersThrow ==
  \A c \in 1..Len(calls) :
    (calls[c].fn = "get"
       /\ TypeOf(calls[c].parameters) \in {"number", "boolean", "function"})
      => (calls[c].pc = "TypeError" /\ calls[c].req = 0)

\* C10: requestOptions is never modified: it keeps method GET, no body and
\* its headers; every request of getTodMarketsEndpoint is a GET without body
\* and every request of postTodMarketsEndpoint a POST with its own payload.
C10_RequestOptionsNeverModified ==
  /\ requestOptions = initialRequestOptions
  /\ \A c \in 1..Len(calls) :
       calls[c].req # 0 =>
         LET o == requests[calls[c].req].opts
         IN /\ calls[c].fn = "get" =>
                 (o.method = "GET" /\ o.body = NoBody
                    /\ o.headers = initialRequestOptions.headers)
            /\ calls[c].fn = "post" =>
                 (o.method = "POST" /\ o.body = JSONstringify(calls[c].payload))

C10_Witness ==
  \E c, d \in 1..Len(calls) :
    /\ c < d
    /\ calls[c].fn = "post" /\ calls[c].pc = "failed"
    /\ calls[d].fn = "get" /\ calls[d].req # 0

====
